---- MODULE Spec2Model ----
(***************************************************************************)
(* A model of renpy/character.py: the dialogue text-tag parser             *)
(* (DialogueTextTags) and the phase loop of display_say.                   *)
(*                                                                         *)
(* Python strings are sequences of one-character strings.  Offsets into    *)
(* strings are Python's 0-based offsets.  A slot that holds a string or    *)
(* None holds a character sequence or the value None below.                *)
(***************************************************************************)
EXTENDS Integers, Sequences, FiniteSets, TLC

VARIABLES
    s,      \* DialogueTextTags.__init__: the argument s
    dtt,    \* DialogueTextTags.__init__: self, its iterator i and the position in __init__
    what,   \* display_say: the argument what
    args,   \* display_say: the other arguments, as the caller gave them
    config, \* renpy.config: skipping, say_allow_dismiss, the callback lists
    game,   \* renpy.game: after_rollback, and what the skip test reads
    loc,    \* display_say: its local variables
    pc,     \* display_say: the position in the function
    events, \* every call display_say has made to a collaborator, in order
    phases, \* the Text widget of each pass of the loop, as display_say set it up
    at_start \* history: renpy.config and renpy.game as they were when display_say was called

pvars == <<s, dtt>>

dvars == <<what, args, config, game, loc, pc, events, phases, at_start>>

vars == <<s, dtt, what, args, config, game, loc, pc, events, phases, at_start>>

(***************************************************************************)
(* Bounds of the model.                                                    *)
(***************************************************************************)
\* The longest raw string the parser is given, in pieces of Pieces.
MaxPieces == 3

\* Python's None in a slot that otherwise holds a string.
None == <<"None">>

(***************************************************************************)
(* The raw strings: every concatenation of at most MaxPieces pieces.  The  *)
(* pieces are whole tags, fragments of tags and plain text, so that tags   *)
(* also arise (and are destroyed) across piece boundaries.                 *)
(***************************************************************************)
Pieces ==
    { <<"a">>,
      <<"{">>,
      <<"}">>,
      <<"=">>,
      <<"{", "{">>,
      <<"{", "p", "}">>,
      <<"{", "w", "=", "1", ".", "5", "}">>,
      <<"{", "n", "w", "}">>,
      <<"{", "f", "a", "s", "t", "}">>,
      <<"{", "b", "}">>,
      <<"{", "p">>,
      <<"{", "n", "w", "=", "x", "}">> }

RECURSIVE Concat(_)
Concat(ps) == IF ps = <<>> THEN <<>> ELSE Head(ps) \o Concat(Tail(ps))

Inputs ==
    { Concat(ps) : ps \in UNION { [1..n -> Pieces] : n \in 0..MaxPieces } }

(***************************************************************************)
(* TAG_RE and re.split.                                                    *)
(***************************************************************************)
\* The alternatives of the group (p|w|nw|fast), in the pattern's order.
TagNames == << <<"p">>, <<"w">>, <<"n", "w">>, <<"f", "a", "s", "t">> >>

\* Whether the literal lit occurs in str at the 1-based position i.
HasAt(str, i, lit) ==
    /\ i >= 1
    /\ i + Len(lit) - 1 <= Len(str)
    /\ SubSeq(str, i, i + Len(lit) - 1) = lit

\* The position of the first "}" of str at or after i, 0 when there is none:
\* where [^}]* followed by \} ends.
RECURSIVE FindClose(_, _)
FindClose(str, i) ==
    IF i > Len(str) THEN 0
    ELSE IF str[i] = "}" THEN i
    ELSE FindClose(str, i + 1)

NoMatch ==
    [matched |-> FALSE, start |-> 0, end |-> 0, quoted |-> None,
     full_tag |-> None, tag |-> None, value |-> None]

\* The second alternative, \{(name)(?:\=([^}]*))?\}, tried at position i.
TagMatchAt(str, i, name) ==
    LET j == i + 1 + Len(name)
        close == FindClose(str, j + 1)
    IN  IF ~HasAt(str, i, <<"{">> \o name) THEN NoMatch
        ELSE IF j <= Len(str) /\ str[j] = "=" /\ close # 0
        THEN [matched |-> TRUE, start |-> i, end |-> close, quoted |-> None,
              full_tag |-> SubSeq(str, i, close), tag |-> name,
              value |-> SubSeq(str, j + 1, close - 1)]
        ELSE IF j <= Len(str) /\ str[j] = "}"
        THEN [matched |-> TRUE, start |-> i, end |-> j, quoted |-> None,
              full_tag |-> SubSeq(str, i, j), tag |-> name, value |-> None]
        ELSE NoMatch

RECURSIVE TagAltAt(_, _, _)
TagAltAt(str, i, k) ==
    IF k > Len(TagNames) THEN NoMatch
    ELSE LET m == TagMatchAt(str, i, TagNames[k])
         IN  IF m.matched THEN m ELSE TagAltAt(str, i, k + 1)

\* TAG_RE matched at position i: (\{\{) first, then the tag alternative.
MatchAt(str, i) ==
    IF HasAt(str, i, <<"{", "{">>)
    THEN [matched |-> TRUE, start |-> i, end |-> i + 1, quoted |-> <<"{", "{">>,
          full_tag |-> None, tag |-> None, value |-> None]
    ELSE TagAltAt(str, i, 1)

\* The matches of TAG_RE in str from position i on, leftmost first and
\* not overlapping, as re.split finds them.
RECURSIVE MatchesFrom(_, _)
MatchesFrom(str, i) ==
    IF i > Len(str) THEN <<>>
    ELSE LET m == MatchAt(str, i)
         IN  IF m.matched THEN <<m>> \o MatchesFrom(str, m.end + 1)
             ELSE MatchesFrom(str, i + 1)

Matches(str) == MatchesFrom(str, 1)

\* TAG_RE.split(str): the text before the first match, then for each match
\* its four groups and the text that follows it.
RECURSIVE SplitParts(_, _, _)
SplitParts(str, ms, from) ==
    IF ms = <<>> THEN << SubSeq(str, from, Len(str)) >>
    ELSE LET m == Head(ms)
         IN  << SubSeq(str, from, m.start - 1), m.quoted, m.full_tag, m.tag, m.value >>
             \o SplitParts(str, Tail(ms), m.end + 1)

Split(str) == SplitParts(str, Matches(str), 1)

(***************************************************************************)
(* float(value).  A float is kept exactly, as mantissa m and number of     *)
(* fractional digits e (m / 10^e) with trailing zeros removed, so that     *)
(* equal numbers are equal values; a delay is a float or None.             *)
(***************************************************************************)
Digits == {"0", "1", "2", "3", "4", "5", "6", "7", "8", "9"}

DigitVal(c) ==
    CASE c = "0" -> 0 [] c = "1" -> 1 [] c = "2" -> 2 [] c = "3" -> 3
      [] c = "4" -> 4 [] c = "5" -> 5 [] c = "6" -> 6 [] c = "7" -> 7
      [] c = "8" -> 8 [] c = "9" -> 9

\* The text of v after an optional sign.
Unsigned(v) == IF v # <<>> /\ v[1] \in {"+", "-"} THEN Tail(v) ELSE v

\* Whether float(v) accepts v: an optional sign, then digits with at most
\* one decimal point and at least one digit.  (The other forms float
\* accepts, exponents, inf, nan and surrounding blanks, need characters no
\* raw string of Inputs holds.)
IsFloat(v) ==
    LET body == Unsigned(v)
        dots == {k \in 1..Len(body) : body[k] = "."}
        digs == {k \in 1..Len(body) : body[k] \in Digits}
    IN  /\ Cardinality(dots) <= 1
        /\ digs # {}
        /\ dots \cup digs = 1..Len(body)

RECURSIVE Mantissa(_)
Mantissa(body) ==
    IF body = <<>> THEN 0
    ELSE LET init == SubSeq(body, 1, Len(body) - 1)
             last == body[Len(body)]
         IN  IF last = "." THEN Mantissa(init)
             ELSE 10 * Mantissa(init) + DigitVal(last)

RECURSIVE FracDigits(_)
FracDigits(body) ==
    IF body = <<>> THEN 0
    ELSE IF body[Len(body)] = "." THEN 0
    ELSE IF \E k \in 1..Len(body) : body[k] = "."
    THEN 1 + FracDigits(SubSeq(body, 1, Len(body) - 1))
    ELSE 0

RECURSIVE Float(_, _)
Float(m, e) ==
    IF m = 0 THEN [none |-> FALSE, m |-> 0, e |-> 0]
    ELSE IF e > 0 /\ m % 10 = 0 THEN Float(m \div 10, e - 1)
    ELSE [none |-> FALSE, m |-> m, e |-> e]

\* A delay of None: wait forever.
DelayNone == [none |-> TRUE, m |-> 0, e |-> 0]

\* float(v), for a v that float accepts.
FloatOf(v) ==
    LET body == Unsigned(v)
        sign == IF v # <<>> /\ v[1] = "-" THEN -1 ELSE 1
    IN  Float(sign * Mantissa(body), FracDigits(body))

\* A mutant of Converted: a value float() rejects is taken as no value.
ConvertedLenient(value) ==
    [raised |-> FALSE,
     value |-> IF value = None \/ ~IsFloat(value) THEN DelayNone ELSE FloatOf(value)]

\* Lines 65-66: value stays None or becomes float(value); float raises
\* ValueError on a text it rejects.
Converted(value) ==
    IF value = None THEN [raised |-> FALSE, value |-> DelayNone]
    ELSE IF IsFloat(value) THEN [raised |-> FALSE, value |-> FloatOf(value)]
    ELSE [raised |-> TRUE, value |-> DelayNone]

(***************************************************************************)
(* DialogueTextTags.__init__.  The object under construction is a record   *)
(* of its fields, the list the iterator i runs over (parts), the number of *)
(* items i has handed out (i) and the position in __init__ (pc).           *)
(***************************************************************************)
\* Before __init__ runs.
Unbuilt ==
    [pc |-> "start", text |-> <<>>, pause_start |-> <<>>, pause_end |-> <<>>,
     pause_delay |-> <<>>, no_wait |-> FALSE, parts |-> <<>>, i |-> 0]

\* Lines 39-53.
Construct(str) ==
    [pc |-> "loop", text |-> <<>>, pause_start |-> <<0>>, pause_end |-> <<>>,
     pause_delay |-> <<>>, no_wait |-> FALSE, parts |-> Split(str), i |-> 0]

\* Line 58: self.text += i.next()
AppendText(d, t) == [d EXCEPT !.text = d.text \o t]

\* A mutant of QuotedText: the escape is resolved to a single brace.
QuotedTextResolved(d, quoted) == [d EXCEPT !.text = d.text \o <<"{">>]

\* Lines 68-70: the escape is added to the text as it was written.
QuotedText(d, quoted) == [d EXCEPT !.text = d.text \o quoted]

\* A mutant of PauseTag: the segment is closed one character late.
PauseTagLateEnd(d, value) ==
    [d EXCEPT !.pause_start = Append(d.pause_start, Len(d.text)),
              !.pause_end = Append(d.pause_end, Len(d.text) + 1),
              !.pause_delay = Append(d.pause_delay, value)]

\* A mutant of PauseTag: the delay of the tag is not kept.
PauseTagNoDelay(d, value) ==
    [d EXCEPT !.pause_start = Append(d.pause_start, Len(d.text)),
              !.pause_end = Append(d.pause_end, Len(d.text)),
              !.pause_delay = Append(d.pause_delay, DelayNone)]

\* Lines 72-75: {p} and {w}.
PauseTag(d, value) ==
    [d EXCEPT !.pause_start = Append(d.pause_start, Len(d.text)),
              !.pause_end = Append(d.pause_end, Len(d.text)),
              !.pause_delay = Append(d.pause_delay, value)]

\* A mutant of NoWaitTag: {nw} also closes the segment, as a pause does.
NoWaitTagNewSegment(d) ==
    [d EXCEPT !.no_wait = TRUE,
              !.pause_start = Append(d.pause_start, Len(d.text)),
              !.pause_end = Append(d.pause_end, Len(d.text)),
              !.pause_delay = Append(d.pause_delay, DelayNone)]

\* Lines 77-78: {nw}.
NoWaitTag(d) == [d EXCEPT !.no_wait = TRUE]

\* A mutant of FastTag: no_wait is not reset.
FastTagKeepsNoWait(d) ==
    [d EXCEPT !.pause_start = <<Len(d.text)>>,
              !.pause_end = <<>>,
              !.pause_delay = <<>>]

\* Lines 80-84: {fast}.
FastTag(d) ==
    [d EXCEPT !.pause_start = <<Len(d.text)>>,
              !.pause_end = <<>>,
              !.pause_delay = <<>>,
              !.no_wait = FALSE]

\* Lines 72-84: the branch on tag.
TagAction(d, tag, value) ==
    IF tag = <<"p">> \/ tag = <<"w">> THEN PauseTag(d, value)
    ELSE IF tag = <<"n", "w">> THEN NoWaitTag(d)
    ELSE IF tag = <<"f", "a", "s", "t">> THEN FastTag(d)
    ELSE d

\* Line 86: self.text += full_tag
AppendFullTag(d, full_tag) == [d EXCEPT !.text = d.text \o full_tag]

\* Lines 57-89: one pass of the body of "while True".  The pass that finds
\* the iterator exhausted at line 60 has added the last text and leaves the
\* loop; a value float() rejects ends __init__ with ValueError.
LoopIter(d) ==
    LET d1 == AppendText(d, d.parts[d.i + 1])
    IN  IF d.i + 1 >= Len(d.parts)
        THEN [d1 EXCEPT !.i = Len(d.parts), !.pc = "finish"]
        ELSE LET quoted == d.parts[d.i + 2]
                 full_tag == d.parts[d.i + 3]
                 tag == d.parts[d.i + 4]
                 value == d.parts[d.i + 5]
                 d2 == [d1 EXCEPT !.i = d.i + 5]
             IN  IF Converted(value).raised THEN [d2 EXCEPT !.pc = "raised"]
                 ELSE IF quoted # None THEN QuotedText(d2, quoted)
                 ELSE AppendFullTag(TagAction(d2, tag, Converted(value).value), full_tag)

\* A mutant of Finish: the test of no_wait is inverted.
FinishInverted(d) ==
    [d EXCEPT !.pause_end = Append(d.pause_end, Len(d.text)),
              !.pause_delay = Append(d.pause_delay,
                                     IF d.no_wait THEN DelayNone ELSE Float(0, 0)),
              !.pc = "done"]

\* Lines 91-96.
Finish(d) ==
    [d EXCEPT !.pause_end = Append(d.pause_end, Len(d.text)),
              !.pause_delay = Append(d.pause_delay,
                                     IF d.no_wait THEN Float(0, 0) ELSE DelayNone),
              !.pc = "done"]

RECURSIVE RunLoop(_)
RunLoop(d) == IF d.pc = "loop" THEN RunLoop(LoopIter(d)) ELSE d

\* DialogueTextTags(str): the constructed object (pc = "done"), or the
\* state in which ValueError left __init__ (pc = "raised").
DialogueTextTags(str) ==
    LET d == RunLoop(Construct(str))
    IN  IF d.pc = "finish" THEN Finish(d) ELSE d

(***************************************************************************)
(* display_say's state while only the parser runs.                         *)
(***************************************************************************)
NoArgs ==
    [interact |-> FALSE, slow |-> FALSE, all_at_once |-> FALSE,
     checkpoint |-> FALSE, with_none |-> "None", callback |-> "None",
     ctc |-> "None", ctc_pause |-> "None", ctc_timedpause |-> "None",
     ctc_force |-> FALSE]

NoConfig ==
    [skipping |-> "None", say_allow_dismiss |-> FALSE,
     say_sustain_callbacks |-> <<>>, all_character_callbacks |-> <<>>,
     character_callback |-> "None"]

NoGame == [after_rollback |-> FALSE, skip_unseen |-> FALSE, seen_current |-> FALSE]

NoLocals ==
    [callback |-> <<>>, after_rollback |-> FALSE, slow |-> FALSE,
     all_at_once |-> FALSE, pause_start |-> <<>>, pause_end |-> <<>>,
     pause_delay |-> <<>>, i |-> 0, last_pause |-> FALSE]

(***************************************************************************)
(* The parser run step by step on one raw string.                          *)
(***************************************************************************)
InitParse ==
    /\ s \in Inputs
    /\ dtt = Unbuilt
    /\ what = <<>>
    /\ args = NoArgs
    /\ config = NoConfig
    /\ game = NoGame
    /\ loc = NoLocals
    /\ pc = "idle"
    /\ events = <<>>
    /\ phases = <<>>
    /\ at_start = [config |-> NoConfig, game |-> NoGame]

DTTConstruct ==
    /\ dtt.pc = "start"
    /\ dtt' = Construct(s)
    /\ UNCHANGED <<s, dvars>>

DTTLoop ==
    /\ dtt.pc = "loop"
    /\ dtt' = LoopIter(dtt)
    /\ UNCHANGED <<s, dvars>>

DTTFinish ==
    /\ dtt.pc = "finish"
    /\ dtt' = Finish(dtt)
    /\ UNCHANGED <<s, dvars>>

NextParse ==
    \/ DTTConstruct
    \/ DTTLoop
    \/ DTTFinish

SpecParse == InitParse /\ [][NextParse]_vars

(***************************************************************************)
(* What the properties of the parser speak of: the tags of a raw string.   *)
(***************************************************************************)
Brace == <<"{">>
Escape == <<"{", "{">>
NameP == <<"p">>
NameW == <<"w">>
NameNW == <<"n", "w">>
NameFast == <<"f", "a", "s", "t">>

\* Whether str holds a dialogue tag somewhere: {{, or {p}, {w}, {nw}, {fast}
\* with or without =value.
ContainsTag(str) ==
    \E i \in 1..Len(str) :
        \/ HasAt(str, i, Escape)
        \/ \E name \in {NameP, NameW, NameNW, NameFast} :
              \/ HasAt(str, i, Brace \o name \o <<"}">>)
              \/ /\ HasAt(str, i, Brace \o name \o <<"=">>)
                 /\ \E j \in (i + Len(name) + 2)..Len(str) : str[j] = "}"

\* Whether t is, on its own, a pause tag: {p}, {w}, {p=N} or {w=N} with N
\* a number.
IsPauseTagText(t) ==
    \E name \in {NameP, NameW} :
        \/ t = Brace \o name \o <<"}">>
        \/ /\ Len(t) >= 4
           /\ HasAt(t, 1, Brace \o name \o <<"=">>)
           /\ t[Len(t)] = "}"
           /\ IsFloat(SubSeq(t, 4, Len(t) - 1))

\* The delay the pause tag t names.
PauseTagDelay(t) == IF Len(t) = 3 THEN DelayNone ELSE FloatOf(SubSeq(t, 4, Len(t) - 1))

\* The places in the matches ms of a kind of tag.
IsPause(m) == m.tag = NameP \/ m.tag = NameW
IsNoWait(m) == m.tag = NameNW
IsFast(m) == m.tag = NameFast

\* The last {fast} among the matches ms, 0 when there is none.
LastFast(ms) ==
    IF \E k \in 1..Len(ms) : IsFast(ms[k])
    THEN CHOOSE k \in 1..Len(ms) :
            IsFast(ms[k]) /\ \A j \in (k + 1)..Len(ms) : ~IsFast(ms[j])
    ELSE 0

\* The offset in the text at which the last {fast} of str begins, 0 when
\* str has none.
FastOffset(str) ==
    LET ms == Matches(str)
    IN  IF LastFast(ms) = 0 THEN 0 ELSE ms[LastFast(ms)].start - 1

\* The pause tags of str after its last {fast}.
PausesAfterFast(str) ==
    LET ms == Matches(str)
    IN  {k \in (LastFast(ms) + 1)..Len(ms) : IsPause(ms[k])}

\* Whether str has an {nw} after its last {fast}.
NoWaitAfterFast(str) ==
    LET ms == Matches(str)
    IN  \E k \in (LastFast(ms) + 1)..Len(ms) : IsNoWait(ms[k])

\* The last match of str that is a tag and not an escape; NoMatch when
\* there is none.
LastTag(str) ==
    LET ts == SelectSeq(Matches(str), LAMBDA m : m.tag # None)
    IN  IF ts = <<>> THEN NoMatch ELSE ts[Len(ts)]

\* Whether some tag of str among the names carries a value float() rejects.
BadValueIn(str, names) ==
    \E k \in 1..Len(Matches(str)) :
        LET m == Matches(str)[k]
        IN  m.tag \in names /\ m.value # None /\ ~IsFloat(m.value)

Parsed == dtt.pc = "done"

\* The segments of d are contiguous: as many starts, ends and delays, at
\* least one, none of negative length, each starting where the one before
\* ends, the last ending with the text.
Contiguous(d) ==
    /\ Len(d.pause_start) >= 1
    /\ Len(d.pause_end) = Len(d.pause_start)
    /\ Len(d.pause_delay) = Len(d.pause_start)
    /\ \A k \in 1..Len(d.pause_start) : d.pause_start[k] <= d.pause_end[k]
    /\ \A k \in 1..(Len(d.pause_start) - 1) : d.pause_start[k + 1] = d.pause_end[k]
    /\ d.pause_end[Len(d.pause_end)] = Len(d.text)

\* d has the one segment [from, end of text) with a delay of None and
\* no_wait false.
OneOpenSegment(d, from) ==
    /\ d.pause_start = <<from>>
    /\ d.pause_end = <<Len(d.text)>>
    /\ d.pause_delay = <<DelayNone>>
    /\ ~d.no_wait

(***************************************************************************)
(* Properties of the parser, under SpecParse.                              *)
(***************************************************************************)

\* C1 as the spec states it: after every successful parse the segments are
\* contiguous, at least one, the last ends at len(text), and the first
\* starts at offset 0.
C1_FirstSegmentAtZero ==
    Parsed => Contiguous(dtt) /\ dtt.pause_start[1] = 0

\* C1, amended: after every successful parse the segments are contiguous
\* and at least one, the last ends at len(text), and the first starts at
\* the offset of the last {fast} tag, which is 0 when there is no {fast}.
C1_SegmentsContiguousFromLastFast ==
    Parsed => Contiguous(dtt) /\ dtt.pause_start[1] = FastOffset(s)

\* A parse with text before a {fast} and a pause after it.
C1_Witness ==
    Parsed /\ Len(dtt.pause_start) >= 2 /\ dtt.pause_start[1] > 0

\* C2: a raw string with no dialogue tag always parses, to the one segment
\* [0, len(s)) with a delay of None, no_wait false and text = s.
C2_TagFreeOneSegment ==
    dtt.pc \in {"done", "raised"} /\ ~ContainsTag(s) =>
        Parsed /\ OneOpenSegment(dtt, 0) /\ dtt.text = s

\* A parsed tag-free string that holds braces.
C2_Witness ==
    Parsed /\ ~ContainsTag(s) /\ (\E k \in 1..Len(s) : s[k] = "{") /\ Len(s) >= 3

\* C3 as the spec states it: when the last tag is {fast}, there is one
\* segment, with a delay of None and no_wait false, covering the whole text.
C3_FastCoversWholeText ==
    Parsed /\ IsFast(LastTag(s)) => OneOpenSegment(dtt, 0)

\* C3, amended: when the last tag is {fast}, there is one segment, with a
\* delay of None and no_wait false, from the offset of that {fast} to the
\* end of the text.
C3_FastDiscardsEarlierState ==
    Parsed /\ IsFast(LastTag(s)) => OneOpenSegment(dtt, LastTag(s).start - 1)

\* A parse in which {fast} discarded a pause or an {nw}.
C3_Witness ==
    /\ Parsed
    /\ IsFast(LastTag(s))
    /\ \E k \in 1..Len(Matches(s)) : IsPause(Matches(s)[k]) \/ IsNoWait(Matches(s)[k])
    /\ dtt.pause_start[1] > 0

\* C4 as the spec states it: for tag-free x and y, x + "{{" + y parses to
\* the text x + "{" + y with one segment spanning it.
C4_EscapeResolved ==
    dtt.pc \in {"done", "raised"} =>
        \A k \in 1..Len(s) :
            LET x == SubSeq(s, 1, k - 1)
                y == SubSeq(s, k + 2, Len(s))
            IN  HasAt(s, k, Escape) /\ ~ContainsTag(x) /\ ~ContainsTag(y) =>
                    /\ Parsed
                    /\ dtt.text = x \o Brace \o y
                    /\ OneOpenSegment(dtt, 0)

\* C4, amended: a string whose only tag is one escape, x + "{{" + y,
\* always parses, to the text x + "{{" + y (both braces kept) with one
\* segment spanning it.
C4_EscapeKeptInOneSegment ==
    /\ dtt.pc \in {"done", "raised"}
    /\ Len(Matches(s)) = 1
    /\ Matches(s)[1].quoted # None
    => LET m == Matches(s)[1]
           x == SubSeq(s, 1, m.start - 1)
           y == SubSeq(s, m.end + 1, Len(s))
       IN  Parsed /\ dtt.text = x \o Escape \o y /\ OneOpenSegment(dtt, 0)

\* A parsed string with text on both sides of its one escape.
C4_Witness ==
    /\ Parsed
    /\ Len(Matches(s)) = 1
    /\ Matches(s)[1].quoted # None
    /\ Matches(s)[1].start > 1
    /\ Matches(s)[1].end < Len(s)

\* C5 as the spec states it: for tag-free x and y, x + a pause tag + y
\* parses to the two segments [0, len(x)) with the tag's delay and
\* [len(x), len(x) + len(y)) with a delay of None, and no_wait false.
C5_PauseSplitsPlainText ==
    dtt.pc \in {"done", "raised"} =>
        \A i \in 1..Len(s), j \in 1..Len(s) :
            LET x == SubSeq(s, 1, i - 1)
                t == SubSeq(s, i, j)
                y == SubSeq(s, j + 1, Len(s))
            IN  i <= j /\ IsPauseTagText(t) /\ ~ContainsTag(x) /\ ~ContainsTag(y) =>
                    /\ Parsed
                    /\ dtt.pause_start = <<0, Len(x)>>
                    /\ dtt.pause_end = <<Len(x), Len(x) + Len(y)>>
                    /\ dtt.pause_delay = <<PauseTagDelay(t), DelayNone>>
                    /\ ~dtt.no_wait

\* C6: after every successful parse, no_wait is true exactly when an {nw}
\* follows the last {fast}; the last delay is 0 when no_wait is true and
\* None otherwise; and the segments are one more than the pause tags after
\* the last {fast}, so an {nw} opens none.
C6_NoWaitAndTrailingDelay ==
    Parsed =>
        /\ dtt.no_wait <=> NoWaitAfterFast(s)
        /\ dtt.pause_delay[Len(dtt.pause_delay)] =
              (IF dtt.no_wait THEN Float(0, 0) ELSE DelayNone)
        /\ Len(dtt.pause_start) = 1 + Cardinality(PausesAfterFast(s))

\* A parse with an {nw} among several segments.
C6_Witness ==
    /\ Parsed
    /\ dtt.no_wait
    /\ Len(dtt.pause_start) >= 2
    /\ dtt.pause_delay[Len(dtt.pause_delay)] = Float(0, 0)

\* C7 as the spec states it: the parse fails exactly when a {p=V} or {w=V}
\* tag carries a V that is no number.
C7_FailsOnlyOnPauseValue ==
    /\ dtt.pc = "raised" => BadValueIn(s, {NameP, NameW})
    /\ dtt.pc \in {"finish", "done"} => ~BadValueIn(s, {NameP, NameW})

\* C7, amended: the parse fails exactly when a {p=V}, {w=V}, {nw=V} or
\* {fast=V} tag carries a V that is no number; a failed parse never
\* completes the object, and every other string parses.
C7_FailsExactlyOnBadValue ==
    /\ dtt.pc = "raised" =>
          /\ BadValueIn(s, {NameP, NameW, NameNW, NameFast})
          /\ Len(dtt.pause_end) < Len(dtt.pause_start)
    /\ dtt.pc \in {"finish", "done"} =>
          ~BadValueIn(s, {NameP, NameW, NameNW, NameFast})

\* A parse that failed on the value of an {nw} tag.
C7_Witness ==
    /\ dtt.pc = "raised"
    /\ BadValueIn(s, {NameNW})
    /\ ~BadValueIn(s, {NameP, NameW})

\* str without its control tags: the characters of str that lie in no
\* match of {p}, {w}, {nw} or {fast}, in their order; the escape and every
\* other tag stay.
Stripped(str) ==
    LET ms == Matches(str)
        InTag(i) == \E k \in 1..Len(ms) :
                        ms[k].tag # None /\ ms[k].start <= i /\ i <= ms[k].end
        kept == SelectSeq([i \in 1..Len(str) |-> i], LAMBDA i : ~InTag(i))
    IN  [n \in 1..Len(kept) |-> str[kept[n]]]

\* C11 as the spec states it: the text of a parsed string is the string
\* with every {p}, {w}, {nw} and {fast} tag, with or without =N, taken out,
\* and everything else, a tag like {b} included, left where it was.
C11_ControlTagsRemoved ==
    Parsed => dtt.text = Stripped(s)

\* The {p} and {w} tags of str after its last {fast}, in their order.
PauseTagsAfterFast(str) ==
    LET ms == Matches(str)
    IN  SelectSeq(SubSeq(ms, LastFast(ms) + 1, Len(ms)), IsPause)

\* The delay the matched tag m names: None without a value.
DelayOf(m) == IF m.value = None THEN DelayNone ELSE FloatOf(m.value)

\* C21: after every successful parse pause_start, pause_end and
\* pause_delay have the same length n >= 1, no segment ends before it
\* starts, each segment starts where the one before ends, the last ends
\* with the text, and the delay of every segment but the last is the value,
\* or None, of the {p} or {w} tag of the same rank after the last {fast}.
C21_ParallelListsWellFormed ==
    Parsed =>
        LET pauses == PauseTagsAfterFast(s)
        IN  /\ Contiguous(dtt)
            /\ Len(dtt.pause_delay) = Len(pauses) + 1
            /\ \A k \in 1..Len(pauses) : dtt.pause_delay[k] = DelayOf(pauses[k])

\* A parse with a {fast}, a pause before it and a timed pause after it.
C21_Witness ==
    /\ Parsed
    /\ LastFast(Matches(s)) >= 2
    /\ \E k \in 1..(LastFast(Matches(s)) - 1) : IsPause(Matches(s)[k])
    /\ Len(dtt.pause_delay) = 2
    /\ ~dtt.pause_delay[1].none

(***************************************************************************)
(* display_say.  The arguments who, afm, ctc_position, cb_args and type    *)
(* and the local roll_forward are only handed on to the collaborators and  *)
(* decide nothing in display_say; they are left out.  Python's None,       *)
(* where the other values are names, is the string "None".                 *)
(***************************************************************************)
\* The raw strings display_say is called with.
TxtA == <<"a">>
TagP == <<"{", "p", "}">>
TagW15 == <<"{", "w", "=", "1", ".", "5", "}">>
TagW0 == <<"{", "w", "=", "0", "}">>
TagNW == <<"{", "n", "w", "}">>
TagFast == <<"{", "f", "a", "s", "t", "}">>
TagWBad == <<"{", "w", "=", "x", "}">>

Whats ==
    { TxtA,
      Concat(<<TxtA, TagP, TxtA>>),
      Concat(<<TxtA, TagW15, TxtA, TagP, TxtA>>),
      Concat(<<TxtA, TagW0, TxtA>>),
      Concat(<<TxtA, TagP, TxtA, TagNW>>),
      Concat(<<TxtA, TagP, TagFast, TxtA>>),
      Concat(<<TxtA, TagWBad>>) }

ArgsSet ==
    [interact : BOOLEAN, slow : BOOLEAN, all_at_once : BOOLEAN,
     checkpoint : BOOLEAN, with_none : {"None", "False"},
     callback : {"None"}, ctc : {"ctc"}, ctc_pause : {"ctc_pause"},
     ctc_timedpause : {"None", "ctc_timedpause"}, ctc_force : BOOLEAN]

\* config.skipping is None, "slow" or "fast"; one callback listens to every
\* line; a call starts with dismissal allowed and one sustain callback
\* registered, and the game's code may change both during an interaction.
ConfigSet ==
    [skipping : {"None", "slow", "fast"}, say_allow_dismiss : {TRUE},
     say_sustain_callbacks : {<<"sustain">>},
     all_character_callbacks : {<<"cb">>}, character_callback : {"None"}]

\* game.skip_unseen is renpy.game.preferences.skip_unseen and
\* game.seen_current is what renpy.game.context().seen_current(True)
\* returns for the line.
GameSet == [after_rollback : BOOLEAN, skip_unseen : BOOLEAN, seen_current : BOOLEAN]

\* One entry of events: the call e, made in pass i of the loop (-1 outside
\* the loop), with x the callback called or the value returned.
Ev(e, i, x) == [e |-> e, i |-> i, x |-> x]

\* for c in callback: c(event, ...)
Fire(callback, event, i) == [k \in 1..Len(callback) |-> Ev(event, i, callback[k])]

\* Lines 340-350: the callbacks of this line.
Callbacks(callback, cfg) ==
    LET own == IF callback = "None"
               THEN IF cfg.character_callback # "None"
                    THEN <<cfg.character_callback>>
                    ELSE <<>>
               ELSE <<callback>>
    IN  cfg.all_character_callbacks \o own

\* A mutant of SlowAfterTests: skip_unseen is not looked at.
SlowAfterTestsSeenOnly(slow, after_rollback, cfg, g) ==
    IF after_rollback THEN FALSE
    ELSE IF cfg.skipping # "None" /\ g.seen_current THEN FALSE
    ELSE slow

\* Lines 361-370: slow after the rollback and skip tests.
SlowAfterTests(slow, after_rollback, cfg, g) ==
    IF after_rollback THEN FALSE
    ELSE IF cfg.skipping # "None" /\ (g.skip_unseen \/ g.seen_current) THEN FALSE
    ELSE slow

\* A mutant of PauseLists: all at once takes the first delay, not the last.
PauseListsFirstDelay(all_at_once, d) ==
    IF all_at_once
    THEN [pause_start |-> <<d.pause_start[1]>>,
          pause_end |-> <<Len(d.text)>>,
          pause_delay |-> <<d.pause_delay[1]>>]
    ELSE [pause_start |-> d.pause_start,
          pause_end |-> d.pause_end,
          pause_delay |-> d.pause_delay]

\* Lines 379-386: the lists the loop runs over.
PauseLists(all_at_once, d) ==
    IF all_at_once
    THEN [pause_start |-> <<d.pause_start[1]>>,
          pause_end |-> <<Len(d.text)>>,
          pause_delay |-> <<d.pause_delay[Len(d.pause_delay)]>>]
    ELSE [pause_start |-> d.pause_start,
          pause_end |-> d.pause_end,
          pause_delay |-> d.pause_delay]

\* The number of passes of "for ... in enumerate(zip(...))".
Min(a, b) == IF a <= b THEN a ELSE b

ZipLen(l) == Min(Len(l.pause_start), Min(Len(l.pause_end), Len(l.pause_delay)))

\* A mutant of LastPause: the first pass is taken for the last.
LastPauseFirst(i, pause_start) == i = 0

\* Line 391.
LastPause(i, pause_start) == i = Len(pause_start) - 1

\* A mutant of OrNone: b whatever a is.
OrNoneSecond(a, b) == b

\* a or b, on displayables and None.
OrNone(a, b) == IF a # "None" THEN a ELSE b

\* A mutant of WhatCtc: ctc_force is not looked at.
WhatCtcForceIgnored(a, last_pause, delay) ==
    LET chosen == IF last_pause THEN a.ctc
                  ELSE IF ~delay.none THEN OrNone(a.ctc_timedpause, a.ctc_pause)
                  ELSE a.ctc_pause
        allowed == IF ~a.interact THEN "None" ELSE chosen
    IN  IF delay = Float(0, 0) THEN "None" ELSE allowed

\* Lines 412-429: the click-to-continue indicator of one pass.
WhatCtc(a, last_pause, delay) ==
    LET chosen == IF last_pause THEN a.ctc
                  ELSE IF ~delay.none THEN OrNone(a.ctc_timedpause, a.ctc_pause)
                  ELSE a.ctc_pause
        allowed == IF ~(a.interact \/ a.ctc_force) THEN "None" ELSE chosen
    IN  IF delay = Float(0, 0) THEN "None" ELSE allowed

\* A mutant of FastSkipping: interact is not looked at.
FastSkippingAnyCall(a, cfg) == cfg.skipping = "fast"

\* A mutant of FastSkipping: the test of interact is inverted.
FastSkippingNotInteract(a, cfg) == ~a.interact /\ cfg.skipping = "fast"

\* Lines 332-334: the test for fast skipping.
FastSkipping(a, cfg) == a.interact /\ cfg.skipping = "fast"

\* A mutant of Abandoned: a False from the interaction is not noticed.
AbandonedNever(rv) == FALSE

\* Line 454: rv is False.
Abandoned(rv) == rv = "False"

\* A mutant of ShowCalls: the show function runs before the show callbacks.
ShowCallsRenderFirst(callback, i, what_text) ==
    <<Ev("show_function", i, what_text)>> \o Fire(callback, "show", i)

\* Lines 400-405: the show callbacks, then the show function, which
\* returns what_text.
ShowCalls(callback, i, what_text) ==
    Fire(callback, "show", i) \o <<Ev("show_function", i, what_text)>>

\* A mutant of NotText: whatever the show function returns is taken.
NotTextIgnored(what_text) == FALSE

\* Line 407: not isinstance(what_text, renpy.text.text.Text).
NotText(what_text) == what_text # "Text"

\* A mutant of SustainCalls: the last pass is sustained too.
SustainCallsEveryPass(cfg, last_pause, i) ==
    Fire(cfg.say_sustain_callbacks, "sustain", i)

\* Lines 457-459: unless the pass is the last, the sustain callbacks that
\* config holds now are called.
SustainCalls(cfg, last_pause, i) ==
    IF ~last_pause
    THEN Fire(cfg.say_sustain_callbacks, "sustain", i)
    ELSE <<>>

\* A mutant of Checkpoint: the checkpoint is marked after an {nw} line too.
CheckpointNoWaitToo(a, d) ==
    IF a.interact /\ a.checkpoint
    THEN <<Ev("checkpoint", -1, "True")>>
    ELSE <<>>

\* Lines 462-466: the checkpoint is marked in an interactive call whose
\* line has no {nw} in force and that was asked to mark it.
Checkpoint(a, d) ==
    IF a.interact /\ ~d.no_wait /\ a.checkpoint
    THEN <<Ev("checkpoint", -1, "True")>>
    ELSE <<>>

\* A mutant of Behavior: dismissal is allowed whatever config says.
BehaviorAlwaysDismiss(a, cfg) ==
    IF a.interact THEN "dismiss" ELSE "None"

\* Lines 395-398: the say behavior of a pass, made with the
\* say_allow_dismiss that config holds now.
Behavior(a, cfg) ==
    IF a.interact
    THEN IF cfg.say_allow_dismiss THEN "dismiss" ELSE "no_dismiss"
    ELSE "None"

\* Where the loop goes after pass i: the next pass, or past the loop.
AfterPass(l, i) == IF i + 1 < ZipLen(l) THEN "loop" ELSE "post"

InitSay ==
    /\ s = <<>>
    /\ dtt = Unbuilt
    /\ what \in Whats
    /\ args \in ArgsSet
    /\ config \in ConfigSet
    /\ game \in GameSet
    /\ loc = NoLocals
    /\ pc = "start"
    /\ events = <<>>
    /\ phases = <<>>
    /\ at_start = [config |-> config, game |-> game]

\* Lines 332-338: in fast skipping mode only the transients are cleared.
FastSkip ==
    /\ pc = "start"
    /\ FastSkipping(args, config)
    /\ events' = Append(events, Ev("with_statement", -1, "None"))
    /\ pc' = "returned"
    /\ UNCHANGED <<s, dtt, what, args, config, game, loc, phases, at_start>>

\* Lines 340-387: the callbacks, begin, the slow tests, the parse of what
\* and the lists of the loop.  A ValueError of the parser leaves display_say.
Begin ==
    /\ pc = "start"
    /\ ~FastSkipping(args, config)
    /\ LET callback == Callbacks(args.callback, config)
           after_rollback == game.after_rollback
           slow == SlowAfterTests(args.slow, after_rollback, config, game)
           all_at_once == IF ~args.interact THEN TRUE ELSE args.all_at_once
           d == DialogueTextTags(what)
       IN  /\ events' = events \o Fire(callback, "begin", -1)
           /\ s' = what
           /\ dtt' = d
           /\ IF d.pc = "raised"
              THEN /\ loc' = [loc EXCEPT !.callback = callback,
                                         !.after_rollback = after_rollback,
                                         !.slow = slow,
                                         !.all_at_once = all_at_once]
                   /\ pc' = "raised"
              ELSE LET l == PauseLists(all_at_once, d)
                   IN  /\ loc' = [loc EXCEPT !.callback = callback,
                                             !.after_rollback = after_rollback,
                                             !.slow = slow,
                                             !.all_at_once = all_at_once,
                                             !.pause_start = l.pause_start,
                                             !.pause_end = l.pause_end,
                                             !.pause_delay = l.pause_delay,
                                             !.i = 0]
                       /\ pc' = IF ZipLen(l) > 0 THEN "loop" ELSE "post"
    /\ UNCHANGED <<what, args, config, game, phases, at_start>>

\* Lines 389-447: one pass of the loop up to the interaction.  The show
\* function returns a Text or something else; something else raises.
Phase ==
    /\ pc = "loop"
    /\ \E what_text \in {"Text", "other"} :
         LET i == loc.i
             start == loc.pause_start[i + 1]
             end == loc.pause_end[i + 1]
             delay == loc.pause_delay[i + 1]
             last_pause == LastPause(i, loc.pause_start)
             behavior == Behavior(args, config)
             what_ctc == WhatCtc(args, last_pause, delay)
             shown == ShowCalls(loc.callback, i, what_text)
         IN  /\ loc' = [loc EXCEPT !.last_pause = last_pause]
             /\ IF NotText(what_text)
                THEN /\ events' = events \o shown
                     /\ phases' = phases
                     /\ pc' = "raised"
                ELSE /\ events' = events \o shown \o Fire(loc.callback, "show_done", i)
                     /\ phases' = Append(phases,
                            [i |-> i, text |-> dtt.text, last_pause |-> last_pause,
                             behavior |-> behavior, what_ctc |-> what_ctc,
                             delay |-> delay, slow |-> loc.slow,
                             slow_start |-> start, slow_end |-> end])
                     /\ pc' = IF args.interact THEN "interact" ELSE "next"
    /\ UNCHANGED <<s, dtt, what, args, config, game, at_start>>

\* What may happen to renpy.config and renpy.game while renpy.ui.interact
\* runs, the game's own code and the player being at work then: nothing,
\* or one of: say_allow_dismiss is switched, the sustain callback is
\* registered or removed, fast skipping starts, after_rollback is cleared.
Changes == {"none", "say_allow_dismiss", "say_sustain_callbacks", "skipping", "after_rollback"}

ConfigAfter(cfg, change) ==
    CASE change = "say_allow_dismiss" ->
            [cfg EXCEPT !.say_allow_dismiss = ~cfg.say_allow_dismiss]
      [] change = "say_sustain_callbacks" ->
            [cfg EXCEPT !.say_sustain_callbacks =
                            IF cfg.say_sustain_callbacks = <<>> THEN <<"sustain">> ELSE <<>>]
      [] change = "skipping" -> [cfg EXCEPT !.skipping = "fast"]
      [] OTHER -> cfg

GameAfter(g, change) ==
    IF change = "after_rollback" THEN [g EXCEPT !.after_rollback = FALSE] ELSE g

\* Lines 449-459: the interaction of one pass.  False ends the loop;
\* otherwise the sustain callbacks registered now are called unless the
\* pass is the last.
Interact ==
    /\ pc = "interact"
    /\ \E rv \in {"False", "True"}, change \in Changes :
         LET cfg == ConfigAfter(config, change)
             called == <<Ev("interact", loc.i, rv)>>
         IN  /\ config' = cfg
             /\ game' = GameAfter(game, change)
             /\ IF Abandoned(rv)
                THEN /\ events' = events \o called
                     /\ pc' = "post"
                ELSE /\ events' = events \o called \o
                          SustainCalls(cfg, loc.last_pause, loc.i)
                     /\ pc' = "next"
    /\ UNCHANGED <<s, dtt, what, args, loc, phases, at_start>>

\* Line 389: the for statement takes the next triple, or the loop is over.
NextPass ==
    /\ pc = "next"
    /\ pc' = AfterPass(loc, loc.i)
    /\ loc' = [loc EXCEPT !.i = IF AfterPass(loc, loc.i) = "loop" THEN loc.i + 1 ELSE loc.i]
    /\ UNCHANGED <<s, dtt, what, args, config, game, events, phases, at_start>>

\* Lines 461-477: the checkpoint, with None and the end callback.
\* config.implicit_with_none is read here once.
PostLoop ==
    /\ pc = "post"
    /\ \E implicit_with_none \in BOOLEAN :
         LET marked == Checkpoint(args, dtt)
             with_none == IF args.with_none = "None"
                          THEN implicit_with_none
                          ELSE args.with_none = "True"
             cleared == IF args.interact /\ with_none
                        THEN <<Ev("do_with", -1, "None")>>
                        ELSE <<>>
         IN  /\ events' = events \o marked \o cleared \o Fire(loc.callback, "end", -1)
             /\ game' = IF args.interact /\ dtt.no_wait
                        THEN [game EXCEPT !.after_rollback = loc.after_rollback]
                        ELSE game
    /\ pc' = "returned"
    /\ UNCHANGED <<s, dtt, what, args, config, loc, phases, at_start>>

Next ==
    \/ FastSkip
    \/ Begin
    \/ Phase
    \/ Interact
    \/ NextPass
    \/ PostLoop

Spec == InitSay /\ [][Next]_vars

(***************************************************************************)
(* Properties of display_say, under Spec.                                  *)
(***************************************************************************)
\* The places in events of the calls named e.
Calls(e) == {n \in 1..Len(events) : events[n].e = e}

\* The passes of the loop that began: those whose show callback was called
\* or whose show function ran.
PassesBegun == {events[n].i : n \in Calls("show") \cup Calls("show_function")}

\* The interactions that returned False.
AbandonedAt == {n \in Calls("interact") : events[n].x = "False"}

\* C8: an interactive call in fast skipping mode runs no pass, calls no
\* callback and no show function, waits for no interaction and marks no
\* checkpoint: all it does is clear the transients once, and return.
C8_FastSkipOnlyClearsTransients ==
    args.interact /\ at_start.config.skipping = "fast" =>
        /\ pc \in {"start", "returned"}
        /\ phases = <<>>
        /\ events = IF pc = "returned"
                    THEN <<Ev("with_statement", -1, "None")>>
                    ELSE <<>>

\* A fast-skipped call that has returned.
C8_Witness ==
    /\ pc = "returned"
    /\ args.interact
    /\ at_start.config.skipping = "fast"
    /\ Len(Matches(what)) >= 2
    /\ events # <<>>

\* C9: once the interaction of pass k has returned False, the loop is
\* over: nothing of a later pass is called, no show, show function,
\* show_done, interaction or sustain callback follows it, and the call goes
\* on to return with the end callback called once, last.
C9_AbandonedInteractionEndsLoop ==
    \A n \in AbandonedAt :
        /\ pc \in {"post", "returned"}
        /\ \A m \in 1..Len(events) : events[m].i <= events[n].i
        /\ \A m \in (n + 1)..Len(events) :
              events[m].e \in {"checkpoint", "do_with", "end"}
        /\ Len(phases) = events[n].i + 1
        /\ pc = "returned" =>
              /\ Cardinality(Calls("end")) = 1
              /\ events[Len(events)].e = "end"

\* A line of three segments abandoned in its second pass, returned.
C9_Witness ==
    /\ pc = "returned"
    /\ Len(loc.pause_start) = 3
    /\ \E n \in AbandonedAt : events[n].i = 1

\* C10: when all at once is asked for, or the call is not interactive, a
\* parse result of any number of segments is shown in one pass, the last
\* one, from the first segment's start to the end of the text, with the
\* last segment's delay.
C10_AllAtOnceIsOnePass ==
    dtt.pc = "done" /\ (args.all_at_once \/ ~args.interact) =>
        LET last == dtt.pause_delay[Len(dtt.pause_delay)]
        IN  /\ loc.pause_start = <<dtt.pause_start[1]>>
            /\ loc.pause_end = <<Len(dtt.text)>>
            /\ loc.pause_delay = <<last>>
            /\ PassesBegun \subseteq {0}
            /\ Len(phases) <= 1
            /\ \A k \in 1..Len(phases) :
                  /\ phases[k].last_pause
                  /\ phases[k].slow_start = dtt.pause_start[1]
                  /\ phases[k].slow_end = Len(dtt.text)
                  /\ phases[k].delay = last
            /\ pc = "returned" => PassesBegun = {0} /\ Len(phases) = 1

\* An interactive call asked to show three segments all at once, returned.
C10_Witness ==
    /\ pc = "returned"
    /\ args.interact
    /\ args.all_at_once
    /\ Len(dtt.pause_start) = 3
    /\ Len(phases) = 1
    /\ dtt.pause_delay[1] # phases[1].delay

\* The calls made inside the loop, in the order a pass makes them.
Rank(e) ==
    CASE e = "show" -> 1
      [] e = "show_function" -> 2
      [] e = "show_done" -> 3
      [] e = "interact" -> 4
      [] e = "sustain" -> 5
      [] OTHER -> 0

\* The calls made inside the loop, in the order they were made.
LoopCalls == SelectSeq(events, LAMBDA ev : Rank(ev.e) > 0)

\* The call a comes before the call b in the order of the loop: in an
\* earlier pass, or in the same pass and earlier in it.
Before(a, b) == a.i < b.i \/ (a.i = b.i /\ Rank(a.e) < Rank(b.e))

\* C12: a call that is not fast-skipped calls begin once, first of all;
\* the passes follow each other in order and each calls show, the show
\* function, show_done and the interaction at most once and in that order;
\* end is called at most once and nothing is called after it; a call that
\* has returned has called end exactly once, last, and when it is
\* interactive the last call of its loop is the interaction of the last
\* pass it showed; and a call that has not returned, or that an error
\* ended, has not called end.
C12_LifecycleOrdered ==
    pc # "start" /\ ~FastSkipping(args, at_start.config) =>
        /\ Calls("begin") = {1}
        /\ LET calls == LoopCalls
           IN  /\ \A n \in 1..(Len(calls) - 1) : Before(calls[n], calls[n + 1])
               /\ pc = "returned" /\ args.interact =>
                     calls[Len(calls)].e = "interact"
        /\ \A n \in 1..(Len(events) - 1) : events[n].e # "end"
        /\ pc = "returned" <=> events[Len(events)].e = "end"

\* An interactive call of three passes that has returned after its third
\* interaction.
C12_Witness ==
    /\ pc = "returned"
    /\ args.interact
    /\ Cardinality(Calls("show_done")) = 3
    /\ Cardinality(Calls("interact")) = 3
    /\ AbandonedAt = {}
    /\ Cardinality(Calls("end")) = 1

\* The last place in events of a call named e, 0 when there is none.
LastCall(e) == IF Calls(e) = {} THEN 0 ELSE CHOOSE n \in Calls(e) : \A m \in Calls(e) : m <= n

\* C13: a sustain callback is only called in an interactive call that is
\* not all at once, right after an interaction that did not return False,
\* in a pass that is not the last, and the next call after it is the show
\* callback of the next pass; and when the interaction of a pass has
\* returned normally, the sustain callbacks registered at that moment have
\* each been called once if the pass is not the last, and none otherwise.
C13_SustainBetweenPasses ==
    /\ \A n \in 1..Len(events) :
          events[n].e = "sustain" =>
              /\ args.interact /\ ~args.all_at_once
              /\ n > 1 /\ events[n - 1] = Ev("interact", events[n].i, "True")
              /\ events[n].i + 1 < Len(dtt.pause_start)
              /\ n < Len(events) =>
                    events[n + 1].e = "show" /\ events[n + 1].i = events[n].i + 1
    /\ pc = "next" /\ args.interact =>
          SubSeq(events, LastCall("interact") + 1, Len(events)) =
              IF loc.i + 1 < Len(loc.pause_start)
              THEN Fire(config.say_sustain_callbacks, "sustain", loc.i)
              ELSE <<>>

\* A line of three passes that has returned with the sustain callback
\* called after the first and after the second interaction.
C13_Witness ==
    /\ pc = "returned"
    /\ Cardinality(Calls("interact")) = 3
    /\ Cardinality(Calls("sustain")) = 2
    /\ events[LastCall("interact") - 1].e = "show_done"

\* Whether the pass shown as phases[k] is the last of its call.
IsLastPhase(k) == phases[k].i + 1 = Len(loc.pause_start)

\* C14: in an interactive call, a pass whose delay is 0 shows no
\* indicator; otherwise the last pass shows ctc, a pass before the last
\* whose delay is a number shows ctc_timedpause, or ctc_pause when there is
\* no ctc_timedpause, and a pass before the last whose delay is None shows
\* ctc_pause.
C14_IndicatorTable ==
    args.interact =>
        \A k \in 1..Len(phases) :
            LET delay == phases[k].delay
            IN  phases[k].what_ctc =
                    IF delay = Float(0, 0) THEN "None"
                    ELSE IF IsLastPhase(k) THEN args.ctc
                    ELSE IF delay.none THEN args.ctc_pause
                    ELSE IF args.ctc_timedpause # "None" THEN args.ctc_timedpause
                    ELSE args.ctc_pause

\* An interactive call with a timed-pause indicator that has shown a timed
\* pause, an untimed pause and the last pass.
C14_Witness ==
    /\ pc = "returned"
    /\ args.interact
    /\ Len(phases) = 3
    /\ phases[1].what_ctc = "ctc_timedpause"
    /\ phases[2].what_ctc = "ctc_pause"
    /\ phases[3].what_ctc = "ctc"

\* C15 as the spec states it: a call that is not interactive shows no
\* indicator in any pass, whatever its other arguments, ctc_force included.
C15_NonInteractiveNoIndicator ==
    ~args.interact =>
        \A k \in 1..Len(phases) : phases[k].what_ctc = "None"

\* C15, amended: a call that is not interactive and not made with
\* ctc_force shows no indicator in any pass, whatever the indicators and
\* the delay; made with ctc_force, it shows its one pass with ctc, and with
\* no indicator only when the delay of that pass is 0.
C15_NonInteractiveIndicatorOnlyForced ==
    ~args.interact =>
        /\ Len(phases) <= 1
        /\ \A k \in 1..Len(phases) :
              phases[k].what_ctc =
                  IF args.ctc_force /\ phases[k].delay # Float(0, 0)
                  THEN args.ctc
                  ELSE "None"

\* A call that is not interactive and not forced has shown a line of
\* several segments, with indicators configured, without an indicator.
C15_Witness ==
    /\ pc = "returned"
    /\ ~args.interact
    /\ ~args.ctc_force
    /\ args.ctc_timedpause # "None"
    /\ Len(dtt.pause_start) = 3
    /\ Len(phases) = 1
    /\ phases[1].delay # Float(0, 0)
    /\ phases[1].what_ctc = "None"

\* What C16 says apart from when the checkpoint is marked: it is marked at
\* most once, after every call of the loop and before end; an interactive
\* call whose line has {nw} in force returns with game.after_rollback set
\* back to what it was when the call began; a call that is not interactive
\* marks no checkpoint and leaves game.after_rollback alone.
CheckpointPlaced ==
    /\ Cardinality(Calls("checkpoint")) <= 1
    /\ \A n \in Calls("checkpoint") :
          /\ pc = "returned"
          /\ events[Len(events)].e = "end"
          /\ \A m \in (n + 1)..Len(events) : events[m].e \in {"do_with", "end"}
    /\ pc = "returned" /\ args.interact /\ dtt.no_wait =>
          game.after_rollback = at_start.game.after_rollback
    /\ pc # "start" /\ ~args.interact =>
          /\ Calls("checkpoint") = {}
          /\ game.after_rollback = at_start.game.after_rollback

\* C16 as the spec states it: an interactive call that is not fast-skipped
\* marks the checkpoint after its loop exactly when its line has no {nw} in
\* force.
C16_CheckpointUnlessNoWait ==
    /\ CheckpointPlaced
    /\ pc = "returned" /\ args.interact /\ ~FastSkipping(args, at_start.config) =>
          (Calls("checkpoint") # {} <=> ~dtt.no_wait)

\* C16, amended: an interactive call that is not fast-skipped marks the
\* checkpoint after its loop exactly when its line has no {nw} in force
\* and the call was made with checkpoint true.
C16_CheckpointWhenAsked ==
    /\ CheckpointPlaced
    /\ pc = "returned" /\ args.interact /\ ~FastSkipping(args, at_start.config) =>
          (Calls("checkpoint") # {} <=> ~dtt.no_wait /\ args.checkpoint)

\* An interactive call of a line without {nw} has marked its checkpoint
\* after two interactions and returned.
C16_Witness ==
    /\ pc = "returned"
    /\ args.interact
    /\ ~dtt.no_wait
    /\ Cardinality(Calls("interact")) = 2
    /\ Cardinality(Calls("checkpoint")) = 1
    /\ events[Len(events)].e = "end"

\* The places in events where the show function returned no Text.
NotTextAt == {n \in Calls("show_function") : events[n].x # "Text"}

\* C17: when the show function of pass k has returned something that is
\* no Text, display_say is left with an error and that return is the last
\* thing that happened: no show_done of pass k, no interaction, no later
\* pass, no checkpoint, no clearing of the transients and no end; begin has
\* been called, and show for every pass up to and including k, and the
\* passes before k were shown in full.
C17_NotTextAborts ==
    \A n \in NotTextAt :
        LET k == events[n].i
        IN  /\ pc = "raised"
            /\ n = Len(events)
            /\ Calls("checkpoint") \cup Calls("do_with") \cup Calls("with_statement")
                  \cup Calls("end") = {}
            /\ \A m \in Calls("show_done") \cup Calls("interact") : events[m].i < k
            /\ events[1].e = "begin"
            /\ {events[m].i : m \in Calls("show")} = 0..k
            /\ {events[m].i : m \in Calls("show_done")} = 0..(k - 1)
            /\ Len(phases) = k

\* The show function has returned no Text in the second pass of an
\* interactive call.
C17_Witness ==
    /\ pc = "raised"
    /\ args.interact
    /\ \E n \in NotTextAt : events[n].i = 1
    /\ Cardinality(Calls("interact")) = 1

\* C18: every pass of a call is shown with the same slow: false when
\* game.after_rollback was set as the call began, or when config.skipping
\* is set and skip_unseen is allowed or the line was seen; the slow the
\* call was made with otherwise.
C18_SlowDecidedOnce ==
    \A k \in 1..Len(phases) :
        phases[k].slow =
            IF \/ at_start.game.after_rollback
               \/ /\ at_start.config.skipping # "None"
                  /\ (game.skip_unseen \/ game.seen_current)
            THEN FALSE
            ELSE args.slow

\* A call made with slow while an unseen line is skipped with skip_unseen
\* allowed has shown three passes, none of them slow.
C18_Witness ==
    /\ pc = "returned"
    /\ args.slow
    /\ ~at_start.game.after_rollback
    /\ at_start.config.skipping = "slow"
    /\ game.skip_unseen /\ ~game.seen_current
    /\ Len(phases) = 3
    /\ \A k \in 1..3 : ~phases[k].slow

\* All a skipped call does: it clears the transients and returns.
OnlyTransientsCleared ==
    /\ pc \in {"start", "returned"}
    /\ phases = <<>>
    /\ Calls("begin") \cup Calls("show") \cup Calls("show_function")
          \cup Calls("show_done") \cup Calls("end") = {}
    /\ pc = "returned" => Cardinality(Calls("with_statement")) = 1

DismissKind(allow) == IF allow THEN "dismiss" ELSE "no_dismiss"

\* The calls made since the last interaction returned.
SinceInteract == SubSeq(events, LastCall("interact") + 1, Len(events))

\* The interaction of a pass that is not the last has just returned
\* normally.
BetweenPasses ==
    /\ pc = "next"
    /\ args.interact
    /\ loc.i + 1 < Len(loc.pause_start)

\* What holds of config.skipping whether or not the rest of config is
\* frozen: it is read before the loop only, so every pass is shown with
\* the slow that the skipping of the start of the call decides, and a
\* call that began without fast skipping is never cut short by it.
SkippingReadAtStart ==
    /\ \A k \in 1..Len(phases) :
          phases[k].slow =
              SlowAfterTests(args.slow, at_start.game.after_rollback,
                             at_start.config, at_start.game)
    /\ pc # "start" /\ ~FastSkipping(args, at_start.config) =>
          Calls("with_statement") = {}
    /\ pc = "returned" /\ ~FastSkipping(args, at_start.config) /\ AbandonedAt = {} =>
          Len(phases) = Len(loc.pause_start)

\* C20 as the spec states it: every pass of a call uses the
\* say_allow_dismiss, the sustain callbacks and the skipping of the start
\* of the call, whatever was changed during its interactions.
C20_PolicyFrozen ==
    /\ SkippingReadAtStart
    /\ args.interact =>
          \A k \in 1..Len(phases) :
              phases[k].behavior = DismissKind(at_start.config.say_allow_dismiss)
    /\ BetweenPasses =>
          SinceInteract = Fire(at_start.config.say_sustain_callbacks, "sustain", loc.i)

\* C20, amended: only config.skipping is fixed at the start of the call.
\* Each pass is shown with the say_allow_dismiss that config holds as the
\* pass begins, and after the interaction of a pass that is not the last
\* the sustain callbacks that config holds then are called: what an
\* interaction changed is used from the next pass of the same call on.
C20_PolicyReadEachPass ==
    /\ SkippingReadAtStart
    /\ pc = "interact" =>
          phases[Len(phases)].behavior = DismissKind(config.say_allow_dismiss)
    /\ BetweenPasses =>
          SinceInteract = Fire(config.say_sustain_callbacks, "sustain", loc.i)

\* A call of three passes has returned; during its first interaction
\* dismissal was forbidden and fast skipping started, during its second
\* the sustain callback was removed: the second pass was shown without
\* dismissal, and the sustain callback was called once, not twice.
C20_Witness ==
    /\ pc = "returned"
    /\ AbandonedAt = {}
    /\ Len(phases) = 3
    /\ at_start.config.say_allow_dismiss
    /\ phases[2].behavior = "no_dismiss"
    /\ at_start.config.skipping = "None"
    /\ config.skipping = "fast"
    /\ Calls("sustain") = {n \in Calls("sustain") : events[n].i = 0}
    /\ Cardinality(Calls("sustain")) = 1

\* C22: in an interactive call that is not fast-skipped and not all at
\* once, pass k of the loop is shown k-th, with the start, end and delay of
\* segment k of the parse, so it starts where the pass before it ended, and
\* it is marked as the last pass exactly when segment k is the last; when
\* the call has returned with no interaction abandoned, the passes shown
\* are as many as the segments: one more than the {p} and {w} tags after
\* the last {fast}.
C22_OnePassPerSegment ==
    args.interact /\ ~args.all_at_once /\ dtt.pc = "done" =>
        /\ Len(phases) <= Len(dtt.pause_start)
        /\ \A k \in 1..Len(phases) :
              /\ phases[k].i = k - 1
              /\ phases[k].slow_start = dtt.pause_start[k]
              /\ phases[k].slow_end = dtt.pause_end[k]
              /\ phases[k].delay = dtt.pause_delay[k]
              /\ k > 1 => phases[k].slow_start = phases[k - 1].slow_end
              /\ phases[k].last_pause <=> k = Len(dtt.pause_start)
        /\ pc = "returned" /\ AbandonedAt = {} =>
              /\ Len(phases) = Len(dtt.pause_start)
              /\ Len(phases) = 1 + Len(PauseTagsAfterFast(what))

\* An interactive call has shown a line of a timed pause and a pause in
\* three passes and returned, no interaction abandoned.
C22_Witness ==
    /\ pc = "returned"
    /\ args.interact
    /\ ~args.all_at_once
    /\ AbandonedAt = {}
    /\ Len(PauseTagsAfterFast(what)) = 2
    /\ Len(phases) = 3
    /\ phases[3].last_pause
    /\ phases[2].slow_start < phases[2].slow_end

====
